---- MODULE Spec2Model ----
(***************************************************************************)
(* Model of src/main.ts: the emoji shortcode / folder link decoration      *)
(* plugin.  Text is a sequence of one-character strings; offsets are the   *)
(* 0-based offsets of the source (character k of a text t is t[k + 1]).    *)
(***************************************************************************)
EXTENDS Integers, Sequences, FiniteSets, TLC

VARIABLES
  doc,            \* view.state.doc: the document text
  selection,      \* view.state.selection.main: [from, to]
  decorations,    \* EmojiViewPlugin.decorations: the array given to Decoration.set
  built,          \* the view state the held decorations were last built from
  pc,             \* "new" before the view plugin's constructor has run, then "built"
  event,          \* the last ViewUpdate the host delivered: its three flags
  configs,        \* FOLDER_CONFIGURATIONS, its entries in Object.entries order
  filePath,       \* argument of getFolderConfigForPath
  folderConfig,   \* its result
  links,          \* the a.internal-link elements of a rendered fragment
  runs,           \* how many times the link post processor has run on it
  children        \* the child nodes of the parent of the processed text node

vars == <<doc, selection, decorations, built, pc, event, configs, filePath,
          folderConfig, links, runs, children>>

----------------------------------------------------------------------------
(* Bounds *)

MaxChunks == 4
MaxTextLen == 11
MaxDocLen == 6
MaxSelect == 1
MaxRules == 3
MaxLinks == 2
MaxRuns == 2

----------------------------------------------------------------------------
(* Strings *)

\* null, where an object, a string or a character is expected
Null == [null |-> TRUE]
NullString == <<"null">>
NoChar == ""

LowerLetters ==
  {"a","b","c","d","e","f","g","h","i","j","k","l","m",
   "n","o","p","q","r","s","t","u","v","w","x","y","z"}

UpperLetters ==
  {"A","B","C","D","E","F","G","H","I","J","K","L","M",
   "N","O","P","Q","R","S","T","U","V","W","X","Y","Z"}

Digits == {"0","1","2","3","4","5","6","7","8","9"}

\* String.prototype.toLowerCase on one character
LowerOf ==
  [c \in UpperLetters |->
     CASE c = "A" -> "a" [] c = "B" -> "b" [] c = "C" -> "c" [] c = "D" -> "d"
       [] c = "E" -> "e" [] c = "F" -> "f" [] c = "G" -> "g" [] c = "H" -> "h"
       [] c = "I" -> "i" [] c = "J" -> "j" [] c = "K" -> "k" [] c = "L" -> "l"
       [] c = "M" -> "m" [] c = "N" -> "n" [] c = "O" -> "o" [] c = "P" -> "p"
       [] c = "Q" -> "q" [] c = "R" -> "r" [] c = "S" -> "s" [] c = "T" -> "t"
       [] c = "U" -> "u" [] c = "V" -> "v" [] c = "W" -> "w" [] c = "X" -> "x"
       [] c = "Y" -> "y" [] c = "Z" -> "z"]

toLowerCase(s) ==
  [k \in 1..Len(s) |-> IF s[k] \in UpperLetters THEN LowerOf[s[k]] ELSE s[k]]

\* s.substring(from, to), 0-based, to exclusive
substring(s, from, to) == SubSeq(s, from + 1, to)

\* whether lit occurs in s at 0-based offset k
OccursAt(s, lit, k) ==
  /\ k + Len(lit) <= Len(s)
  /\ \A j \in 1..Len(lit) : s[k + j] = lit[j]

\* String.prototype.includes
includes(s, lit) == \E k \in 0..Len(s) : OccursAt(s, lit, k)

RECURSIVE Concat(_)
Concat(ss) == IF ss = <<>> THEN <<>> ELSE Head(ss) \o Concat(Tail(ss))

----------------------------------------------------------------------------
(* Configuration *)

\* the symbols are written as their code points
EMOJI_MAPPINGS ==
  <<":","+","1",":">> :> "U+1F44D"
  @@ <<":","s","u","n","g","l","a","s","s","e","s",":">> :> "U+1F60E"
  @@ <<":","s","m","i","l","e",":">> :> "U+1F604"
  @@ <<":","h","e","a","r","t",":">> :> "U+2764 U+FE0F"
  @@ <<":","f","i","r","e",":">> :> "U+1F525"
  @@ <<":","r","o","c","k","e","t",":">> :> "U+1F680"
  @@ <<":","s","t","a","r",":">> :> "U+2B50"
  @@ <<":","w","i","n","k",":">> :> "U+1F609"
  @@ <<":","t","h","u","m","b","s","u","p",":">> :> "U+1F44D"
  @@ <<":","t","h","u","m","b","s","d","o","w","n",":">> :> "U+1F44E"
  @@ <<":","l","a","u","g","h",":">> :> "U+1F602"
  @@ <<":","c","r","y",":">> :> "U+1F622"

Undefined == "undefined"

\* EMOJI_MAPPINGS[emojiCode]
EmojiOf(emojiCode) ==
  IF emojiCode \in DOMAIN EMOJI_MAPPINGS THEN EMOJI_MAPPINGS[emojiCode] ELSE Undefined

\* A RegExp of the shape the configuration uses: alternatives, each a literal
\* with or without a leading ^, and the i flag or not.
RegExp(alts, ignoreCase) == [type |-> "RegExp", alts |-> alts, ignoreCase |-> ignoreCase]

Literal(text) == [type |-> "string", text |-> text]

\* RegExp.prototype.test
test(re, s) ==
  LET subject == IF re.ignoreCase THEN toLowerCase(s) ELSE s
      lit(a)  == IF re.ignoreCase THEN toLowerCase(a.lit) ELSE a.lit
  IN  \E n \in 1..Len(re.alts) :
        IF re.alts[n].anchored
        THEN OccursAt(subject, lit(re.alts[n]), 0)
        ELSE includes(subject, lit(re.alts[n]))

\* /^important\/|\/important\//i
ImportantPattern ==
  RegExp(<<[anchored |-> TRUE,  lit |-> <<"i","m","p","o","r","t","a","n","t","/">>],
           [anchored |-> FALSE, lit |-> <<"/","i","m","p","o","r","t","a","n","t","/">>]>>, TRUE)

\* An entry of FOLDER_CONFIGURATIONS.  FolderConfig declares folderPattern,
\* emoji, cssClass and description; "enabled" is the flag of the
\* specification's ClassificationRule, which an entry may carry as an extra
\* property and which no line of the source reads.
FolderConfig(folderPattern, emoji, cssClass, enabled) ==
  [folderPattern |-> folderPattern, emoji |-> emoji, cssClass |-> cssClass,
   enabled |-> enabled]

FOLDER_CONFIGURATIONS ==
  <<FolderConfig(ImportantPattern, "U+1F680", "important-link-emoji", TRUE)>>

----------------------------------------------------------------------------
(* getFolderConfigForPath *)

\* one turn of the loop's body: whether the entry's pattern matches
PatternMatches(config, normalizedPath) ==
  IF config.folderPattern.type = "string"
  THEN includes(normalizedPath, toLowerCase(config.folderPattern.text))
  ELSE test(config.folderPattern, normalizedPath)

\* a loop that goes on after a match and so returns the last entry that matches
RECURSIVE FindConfig_LastMatch(_, _, _)
FindConfig_LastMatch(entries, n, normalizedPath) ==
  IF n > Len(entries) THEN Null
  ELSE LET later == FindConfig_LastMatch(entries, n + 1, normalizedPath)
       IN  IF later /= Null THEN later
           ELSE IF PatternMatches(entries[n], normalizedPath) THEN entries[n]
           ELSE Null

\* the for loop over Object.entries(FOLDER_CONFIGURATIONS), from entry n on
RECURSIVE FindConfig(_, _, _)
FindConfig(entries, n, normalizedPath) ==
  IF n > Len(entries) THEN Null
  ELSE IF PatternMatches(entries[n], normalizedPath) THEN entries[n]
  ELSE FindConfig(entries, n + 1, normalizedPath)

\* the path is not lowercased
ConfigForPath_NoLowerCase(entries, path) == FindConfig(entries, 1, path)

ConfigForPath(entries, path) == FindConfig(entries, 1, toLowerCase(path))

getFolderConfigForPath(path) == ConfigForPath(configs, path)

----------------------------------------------------------------------------
(* The host: the vault's link index and the document's lines *)

ImportantFile == <<"i","m","p","o","r","t","a","n","t","/","i",".","m","d">>
NotesFile     == <<"n","o","t","e","s","/","i","x",".","m","d">>

\* app.metadataCache.getFirstLinkpathDest(linkText, sourcePath): the file the
\* vault's index gives for a link text, or null
getFirstLinkpathDest(linkText) ==
  IF linkText = <<"i">> THEN [path |-> ImportantFile]
  ELSE IF linkText = <<"i","x">> THEN [path |-> NotesFile]
  ELSE Null

\* the offset of the first line break of text at or after k, or Len(text)
RECURSIVE LineEnd(_, _)
LineEnd(text, k) ==
  IF k >= Len(text) \/ text[k + 1] = "\n" THEN k ELSE LineEnd(text, k + 1)

\* doc.line(1) .. doc.line(doc.lines), of the text from offset k on
RECURSIVE LinesFrom(_, _)
LinesFrom(text, k) ==
  LET e == LineEnd(text, k)
      line == [from |-> k, to |-> e, text |-> substring(text, k, e)]
  IN  IF e >= Len(text) THEN <<line>> ELSE <<line>> \o LinesFrom(text, e + 1)

DocLines(text) == LinesFrom(text, 0)

----------------------------------------------------------------------------
(* The two regular expressions of buildDecorations *)

\* [a-zA-Z0-9_+-]
NameChars == LowerLetters \cup UpperLetters \cup Digits \cup {"_", "+", "-"}

CharAt(text, k) == IF k >= 0 /\ k < Len(text) THEN text[k + 1] ELSE NoChar

\* the end of the longest run, from offset k, of characters of a class, or of
\* characters outside it when the class is negated
RECURSIVE RunEnd(_, _, _, _)
RunEnd(text, k, class, negated) ==
  IF k < Len(text) /\ ((text[k + 1] \in class) /= negated)
  THEN RunEnd(text, k + 1, class, negated) ELSE k

\* /:([a-zA-Z0-9_+-]+):/ tried at offset k: the match's end, or -1
EmojiMatchEnd(text, k) ==
  LET e == RunEnd(text, k + 1, NameChars, FALSE)
  IN  IF CharAt(text, k) = ":" /\ e > k + 1 /\ CharAt(text, e) = ":"
      THEN e + 1 ELSE -1

\* /\[\[([^\]|]+)(\|([^\]]+))?\]\]/ tried at offset k: the match's end and the
\* end of group 1, or -1
LinkMatchEnd(text, k) ==
  LET e1 == RunEnd(text, k + 2, {"]", "|"}, TRUE)
      e2 == RunEnd(text, e1 + 1, {"]"}, TRUE)
      closes(e) == CharAt(text, e) = "]" /\ CharAt(text, e + 1) = "]"
      none == [end |-> -1, group1 |-> -1]
  IN  IF ~(CharAt(text, k) = "[" /\ CharAt(text, k + 1) = "[" /\ e1 > k + 2)
      THEN none
      ELSE IF CharAt(text, e1) = "|" /\ e2 > e1 + 1 /\ closes(e2)
      THEN [end |-> e2 + 2, group1 |-> e1]
      ELSE IF closes(e1) THEN [end |-> e1 + 2, group1 |-> e1]
      ELSE none

\* emojiRegex.exec(lineText) with lastIndex = k: the first offset at or after k
\* where the expression matches, or -1
RECURSIVE EmojiExec(_, _)
EmojiExec(text, k) ==
  IF k >= Len(text) THEN -1
  ELSE IF EmojiMatchEnd(text, k) >= 0 THEN k ELSE EmojiExec(text, k + 1)

RECURSIVE LinkExec(_, _)
LinkExec(text, k) ==
  IF k >= Len(text) THEN -1
  ELSE IF LinkMatchEnd(text, k).end >= 0 THEN k ELSE LinkExec(text, k + 1)

----------------------------------------------------------------------------
(* EmojiViewPlugin *)

\* Decoration.replace({widget: new EmojiWidget(emoji)}).range(from, to)
ReplaceDecoration(emoji, from, to) ==
  [kind |-> "replace", from |-> from, to |-> to, side |-> 0,
   widget |-> [class |-> "EmojiWidget", emoji |-> emoji, cssClass |-> "emoji-widget"]]

\* Decoration.widget({widget: new FolderLinkWidget(emoji, cssClass), side}).range(pos)
WidgetDecoration(emoji, cssClass, side, pos) ==
  [kind |-> "widget", from |-> pos, to |-> pos, side |-> side,
   widget |-> [class |-> "FolderLinkWidget", emoji |-> emoji, cssClass |-> cssClass]]

\* the end of the range is not part of it
isCursorInRange_ExclusiveEnd(sel, from, to) ==
  \/ (sel.from >= from /\ sel.from < to)
  \/ (sel.to >= from /\ sel.to < to)
  \/ (sel.from <= from /\ sel.to >= to)

isCursorInRange(sel, from, to) ==
  \/ (sel.from >= from /\ sel.from <= to)
  \/ (sel.to >= from /\ sel.to <= to)
  \/ (sel.from <= from /\ sel.to >= to)

resolveFilePath(linkText) ==
  LET file == getFirstLinkpathDest(linkText)
  IN  IF file /= Null THEN file.path ELSE NullString

\* from is the offset in the line, line.from forgotten
EmojiBody_NoLineFrom(line, index, end, sel) ==
  LET fullMatch == substring(line.text, index, end)
      emoji == EmojiOf(fullMatch)
      from == index
      to == from + Len(fullMatch)
  IN  IF emoji /= Undefined /\ ~isCursorInRange(sel, from, to)
      THEN <<ReplaceDecoration(emoji, from, to)>>
      ELSE <<>>

\* the match is replaced whether the map has it or not
EmojiBody_NoMapCheck(line, index, end, sel) ==
  LET fullMatch == substring(line.text, index, end)
      emoji == EmojiOf(fullMatch)
      from == line.from + index
      to == from + Len(fullMatch)
  IN  IF ~isCursorInRange(sel, from, to)
      THEN <<ReplaceDecoration(emoji, from, to)>>
      ELSE <<>>

\* the body of the emoji while loop for the match of lineText at [index, end):
\* what it pushes
EmojiBody(line, index, end, sel) ==
  LET fullMatch == substring(line.text, index, end)
      emoji == EmojiOf(fullMatch)
      from == line.from + index
      to == from + Len(fullMatch)
  IN  IF emoji /= Undefined /\ ~isCursorInRange(sel, from, to)
      THEN <<ReplaceDecoration(emoji, from, to)>>
      ELSE <<>>

\* the widget is put at the link's start
LinkBody_AtFrom(line, index, m, sel) ==
  LET linkPath == substring(line.text, index + 2, m.group1)
      from == line.from + index
      to == from + (m.end - index)
      resolvedPath == resolveFilePath(linkPath)
      config == getFolderConfigForPath(resolvedPath)
  IN  IF isCursorInRange(sel, from, to) THEN <<>>
      ELSE IF resolvedPath = NullString \/ resolvedPath = <<>> THEN <<>>
      ELSE IF config = Null THEN <<>>
      ELSE <<WidgetDecoration(config.emoji,
               IF config.cssClass /= Undefined /\ config.cssClass /= ""
               THEN config.cssClass ELSE "folder-link-emoji",
               1, from)>>

\* the body of the link while loop for the match of lineText at [index, m.end)
\* with group 1 ending at m.group1: what it pushes
LinkBody(line, index, m, sel) ==
  LET linkPath == substring(line.text, index + 2, m.group1)
      from == line.from + index
      to == from + (m.end - index)
      resolvedPath == resolveFilePath(linkPath)
      config == getFolderConfigForPath(resolvedPath)
  IN  IF isCursorInRange(sel, from, to) THEN <<>>
      ELSE IF resolvedPath = NullString \/ resolvedPath = <<>> THEN <<>>
      ELSE IF config = Null THEN <<>>
      ELSE <<WidgetDecoration(config.emoji,
               IF config.cssClass /= Undefined /\ config.cssClass /= ""
               THEN config.cssClass ELSE "folder-link-emoji",
               1, to)>>

\* while ((emojiMatch = emojiRegex.exec(lineText)) !== null), lastIndex = k
RECURSIVE EmojiLoop(_, _, _)
EmojiLoop(line, k, sel) ==
  LET index == EmojiExec(line.text, k)
      end == EmojiMatchEnd(line.text, index)
  IN  IF index < 0 THEN <<>>
      ELSE EmojiBody(line, index, end, sel) \o EmojiLoop(line, end, sel)

\* while ((linkMatch = linkRegex.exec(lineText)) !== null), lastIndex = k
RECURSIVE LinkLoop(_, _, _)
LinkLoop(line, k, sel) ==
  LET index == LinkExec(line.text, k)
      m == LinkMatchEnd(line.text, index)
  IN  IF index < 0 THEN <<>>
      ELSE LinkBody(line, index, m, sel) \o LinkLoop(line, m.end, sel)

\* what one turn of the loop over the lines pushes
LineDecorations(line, sel) == EmojiLoop(line, 0, sel) \o LinkLoop(line, 0, sel)

\* the array `decorations` at the return, which Decoration.set receives as it is
buildDecorations(view) ==
  LET lines == DocLines(view.doc)
  IN  Concat([n \in 1..Len(lines) |-> LineDecorations(lines[n], view.selection)])

View(d, sel) == [doc |-> d, selection |-> sel]

----------------------------------------------------------------------------
(* Inputs *)

\* The pieces documents are put together from: a known shortcode, a colon, a
\* name character, the opening of a link to a file of the vault, the closing
\* of a link, the start of a display text and a line break.
Vocabulary ==
  {<<":","+","1",":">>, <<":">>, <<"x">>, <<"[","[","i">>, <<"]","]">>, <<"|","x">>, <<"\n">>}

Documents ==
  {d \in {Concat(cs) : cs \in UNION {[1..n -> Vocabulary] : n \in 0..MaxChunks}} :
     Len(d) <= MaxTextLen}

Selections(d) ==
  UNION {{[from |-> a, to |-> b] : b \in a..Len(d)} : a \in 0..Len(d)}

\* a configuration with a second entry, a string pattern without a class of
\* its own, ahead of the source's entry
TwoFolderConfigurations ==
  <<FolderConfig(Literal(<<"I","m","p","o","r","t","a","n","t">>), "U+1F4E6", Undefined, TRUE)>>
  \o FOLDER_CONFIGURATIONS

BuildConfigurations == {FOLDER_CONFIGURATIONS, TwoFolderConfigurations}

----------------------------------------------------------------------------
(* Specification of the construction of the view plugin *)

NoView == [doc |-> <<>>, selection |-> [from |-> 0, to |-> 0]]

IdleEditor ==
  /\ doc = <<>> /\ selection = [from |-> 0, to |-> 0]
  /\ decorations = <<>> /\ built = NoView
IdleClassifier == filePath = <<>> /\ folderConfig = Null
IdleReading == links = <<>> /\ runs = 0 /\ children = <<>>

NoEvent == [docChanged |-> FALSE, viewportChanged |-> FALSE, selectionSet |-> FALSE]

\* whether the link expression matches somewhere in the text
HoldsLink(text) ==
  \E n \in 1..Len(DocLines(text)) : LinkExec(DocLines(text)[n].text, 0) >= 0

\* The configuration is read only for a match of the link expression: the
\* documents that hold one are built under each configuration, the others
\* under the source's.
InitBuild ==
  /\ doc \in Documents
  /\ configs \in IF HoldsLink(doc) THEN BuildConfigurations ELSE {FOLDER_CONFIGURATIONS}
  /\ selection \in Selections(doc)
  /\ decorations = <<>>
  /\ built = NoView
  /\ pc = "new"
  /\ event = NoEvent
  /\ IdleClassifier /\ IdleReading

\* constructor(view, plugin)
Construct ==
  /\ pc = "new"
  /\ decorations' = buildDecorations(View(doc, selection))
  /\ built' = View(doc, selection)
  /\ pc' = "built"
  /\ UNCHANGED <<doc, selection, event, configs, filePath, folderConfig, links, runs, children>>

NextBuild == Construct

SpecBuild == InitBuild /\ [][NextBuild]_vars

----------------------------------------------------------------------------
(* Specification of the view plugin under the host's updates *)

\* a change of the selection alone does not rebuild
update_IgnoresSelection(u, view) ==
  IF u.docChanged \/ u.viewportChanged
  THEN buildDecorations(view)
  ELSE decorations

\* update(update): the decorations the plugin holds after it
update(u, view) ==
  IF u.docChanged \/ u.viewportChanged \/ u.selectionSet
  THEN buildDecorations(view)
  ELSE decorations

\* the pieces typed into the document
Typed == {<<":","+","1",":">>, <<"[","[","i">>, <<"]","]">>, <<"|","x">>, <<" ">>}

Init ==
  /\ doc = <<>>
  /\ selection = [from |-> 0, to |-> 0]
  /\ configs \in BuildConfigurations
  /\ decorations = buildDecorations(View(doc, selection))
  /\ built = View(doc, selection)
  /\ pc = "built"
  /\ event = NoEvent
  /\ IdleClassifier /\ IdleReading

\* The host delivers the ViewUpdate u whose view is (d, sel).  `built` keeps
\* the view of the last update that reported a change of the document, the
\* viewport or the selection.
Deliver(u, d, sel) ==
  /\ doc' = d
  /\ selection' = sel
  /\ event' = u
  /\ decorations' = update(u, View(d, sel))
  /\ built' = IF u.docChanged \/ u.viewportChanged \/ u.selectionSet
              THEN View(d, sel) ELSE built
  /\ UNCHANGED <<pc, configs, filePath, folderConfig, links, runs, children>>

\* text is typed at the end of the document
Type ==
  \E piece \in Typed :
    /\ Len(doc) + Len(piece) <= MaxDocLen
    /\ Deliver([docChanged |-> TRUE, viewportChanged |-> FALSE, selectionSet |-> FALSE],
               doc \o piece, selection)

\* the whole document is deleted; the selection is mapped through the change
DeleteAll ==
  /\ doc /= <<>>
  /\ Deliver([docChanged |-> TRUE, viewportChanged |-> FALSE, selectionSet |-> FALSE],
             <<>>, [from |-> 0, to |-> 0])

\* the cursor is put somewhere, or up to MaxSelect characters are selected
Select ==
  \E a \in 0..Len(doc), n \in 0..MaxSelect :
    /\ a + n <= Len(doc)
    /\ Deliver([docChanged |-> FALSE, viewportChanged |-> FALSE, selectionSet |-> TRUE],
               doc, [from |-> a, to |-> a + n])

\* the view is scrolled
Scroll ==
  Deliver([docChanged |-> FALSE, viewportChanged |-> TRUE, selectionSet |-> FALSE],
          doc, selection)

\* an update that reports none of the three (a focus change, a measure)
OtherUpdate == Deliver(NoEvent, doc, selection)

Next == Type \/ DeleteAll \/ Select \/ Scroll \/ OtherUpdate

Spec == Init /\ [][Next]_vars

----------------------------------------------------------------------------
(* What the claims speak of, stated on the offsets of the whole document *)

\* the offsets of text where one of the characters cs stands
Places(text, cs) == {k \in 0..(Len(text) - 1) : text[k + 1] \in cs}

\* [a, b) is a shortcode token: a colon, one or more name characters, a colon
IsToken(text, a, b) ==
  /\ b >= a + 3
  /\ CharAt(text, a) = ":" /\ CharAt(text, b - 1) = ":"
  /\ \A k \in (a + 1)..(b - 2) : CharAt(text, k) \in NameChars

\* The token at a is a match of the left-to-right scan: no match before it
\* has taken the colon it starts with.
RECURSIVE TokenMatched(_, _, _, _)
TokenMatched(text, colons, a, b) ==
  /\ IsToken(text, a, b)
  /\ ~\E c \in colons : c < a /\ TokenMatched(text, colons, c, a + 1)

TokenSpans(text) ==
  LET colons == Places(text, {":"})
  IN  UNION {{[from |-> a, to |-> c + 1] :
                 c \in {c \in colons : TokenMatched(text, colons, a, c + 1)}} :
               a \in colons}

\* [a, b) is a link whose target is [a + 2, g): [[target]] or [[target|display]]
IsLink(text, a, g, b) ==
  /\ CharAt(text, a) = "[" /\ CharAt(text, a + 1) = "["
  /\ g > a + 2
  /\ \A k \in (a + 2)..(g - 1) : CharAt(text, k) \notin {"]", "|", "\n"}
  /\ CharAt(text, b - 2) = "]" /\ CharAt(text, b - 1) = "]"
  /\ \/ b = g + 2
     \/ /\ CharAt(text, g) = "|"
        /\ b > g + 3
        /\ \A k \in (g + 1)..(b - 3) : CharAt(text, k) \notin {"]", "\n"}

LinkCandidates(text) ==
  LET opens == {a \in Places(text, {"["}) : CharAt(text, a + 1) = "["}
      stops == Places(text, {"]", "|"})
      closes == {c \in Places(text, {"]"}) : CharAt(text, c - 1) = "]"}
  IN  UNION {{[from |-> a, target |-> p[1], to |-> p[2] + 1] :
                 p \in {p \in stops \X closes : IsLink(text, a, p[1], p[2] + 1)}} :
               a \in opens}

\* The candidates the left-to-right scan matches: those no earlier match
\* reaches into.
RECURSIVE LinkMatched(_, _)
LinkMatched(cands, sp) ==
  ~\E c \in cands : c.from < sp.from /\ c.to > sp.from /\ LinkMatched(cands, c)

LinkSpans(text) ==
  LET cands == LinkCandidates(text)
  IN  {sp \in cands : LinkMatched(cands, sp)}

TargetOf(text, sp) == substring(text, sp.from + 2, sp.target)

\* the selection [sel.from, sel.to] and the span [from, to] share an offset
Occupied(sel, from, to) == sel.from <= to /\ from <= sel.to

\* the entry the classifier is to give: the earliest one that matches
EarliestMatch(path) ==
  {n \in 1..Len(configs) :
     /\ PatternMatches(configs[n], toLowerCase(path))
     /\ \A m \in 1..(n - 1) : ~PatternMatches(configs[m], toLowerCase(path))}

Resolves(text, sp) == getFirstLinkpathDest(TargetOf(text, sp)) /= Null
ResolvedPath(text, sp) == getFirstLinkpathDest(TargetOf(text, sp)).path

\* the link resolves to a file that an entry of the configuration matches
Classified(text, sp) ==
  Resolves(text, sp) /\ EarliestMatch(ResolvedPath(text, sp)) /= {}

KnownToken(text, sp) == substring(text, sp.from, sp.to) \in DOMAIN EMOJI_MAPPINGS

Replaces(ds) == {n \in 1..Len(ds) : ds[n].kind = "replace"}
Markers(ds)  == {n \in 1..Len(ds) : ds[n].kind = "widget"}
ReplacesOf(ds, sp) == {n \in Replaces(ds) : ds[n].from = sp.from /\ ds[n].to = sp.to}
MarkersOf(ds, sp)  == {n \in Markers(ds) : ds[n].from = sp.to}

Built == pc = "built"

----------------------------------------------------------------------------
(* Claims about buildDecorations, under SpecBuild *)

Eligible(toks) ==
  {sp \in toks : KnownToken(doc, sp) /\ ~Occupied(selection, sp.from, sp.to)}

EligibleLinks(lnks) ==
  {sp \in lnks : Classified(doc, sp) /\ ~Occupied(selection, sp.from, sp.to)}

\* C1: every match of the shortcode expression whose text is a key of the map
\* and whose span the selection does not occupy has exactly one replace
\* instruction, from the match's offset in the document to its end, carrying
\* the mapped symbol; and there are no more replace instructions than those.
C1_ShortcodeReplaced ==
  Built =>
    LET eligible == Eligible(TokenSpans(doc))
    IN  /\ \A sp \in eligible :
             /\ Cardinality(ReplacesOf(decorations, sp)) = 1
             /\ \A n \in ReplacesOf(decorations, sp) :
                  decorations[n].widget.emoji
                    = EMOJI_MAPPINGS[substring(doc, sp.from, sp.to)]
        /\ Cardinality(Replaces(decorations)) = Cardinality(eligible)

\* a known shortcode on a line after the first is replaced
C1_Witness ==
  /\ Built
  /\ \E sp \in Eligible(TokenSpans(doc)) :
       /\ \E k \in 0..(sp.from - 1) : CharAt(doc, k) = "\n"
       /\ ReplacesOf(decorations, sp) /= {}

\* the selection's from or to equals from or to, or lies strictly between
\* them, or the selection contains the whole span
Touches(sel, from, to) ==
  \/ sel.from \in {from, to} \/ sel.to \in {from, to}
  \/ (from < sel.from /\ sel.from < to)
  \/ (from < sel.to /\ sel.to < to)
  \/ (sel.from <= from /\ to <= sel.to)

\* C2: a shortcode or link span the selection touches, its two ends included,
\* has no decoration; and a span is judged alone: one the selection does not
\* touch keeps its decoration whatever other span the selection is in.
C2_SelectionSuppresses ==
  Built =>
    LET toks == TokenSpans(doc)
        lnks == LinkSpans(doc)
    IN  /\ \A sp \in toks :
             Touches(selection, sp.from, sp.to) => ReplacesOf(decorations, sp) = {}
        /\ \A sp \in lnks :
             Touches(selection, sp.from, sp.to) => MarkersOf(decorations, sp) = {}
        /\ \A sp \in toks :
             (KnownToken(doc, sp) /\ ~Touches(selection, sp.from, sp.to))
               => ReplacesOf(decorations, sp) /= {}
        /\ \A sp \in lnks :
             (Classified(doc, sp) /\ ~Touches(selection, sp.from, sp.to))
               => MarkersOf(decorations, sp) /= {}

\* the cursor is inside a known shortcode, which is left alone, and the link
\* elsewhere on the line has its marker
C2_Witness ==
  /\ Built
  /\ selection.from = selection.to
  /\ \E sp \in TokenSpans(doc) :
       /\ KnownToken(doc, sp)
       /\ sp.from < selection.from /\ selection.from < sp.to
       /\ ReplacesOf(decorations, sp) = {}
  /\ \E sp \in LinkSpans(doc) : MarkersOf(decorations, sp) /= {}

\* C3: a link the selection does not occupy whose target (the text before the
\* pipe) resolves to a path an entry matches has exactly one marker; it
\* carries the emoji of the earliest matching entry, is a point at the link's
\* end with side 1 (after), and whatever replace instruction reaches into the
\* link's span is the replacement of a known shortcode there.
C3_LinkMarker ==
  Built =>
    LET toks == TokenSpans(doc)
    IN  \A sp \in EligibleLinks(LinkSpans(doc)) :
          /\ Cardinality(MarkersOf(decorations, sp)) = 1
          /\ \A n \in MarkersOf(decorations, sp) :
               /\ decorations[n].from = sp.to /\ decorations[n].to = sp.to
               /\ decorations[n].side = 1
               /\ \E m \in EarliestMatch(ResolvedPath(doc, sp)) :
                    decorations[n].widget.emoji = configs[m].emoji
          /\ \A n \in Replaces(decorations) :
               (decorations[n].from < sp.to /\ decorations[n].to > sp.from)
                 => \E tok \in toks :
                      /\ tok.from = decorations[n].from /\ tok.to = decorations[n].to
                      /\ KnownToken(doc, tok)

\* a link with a display text, under a configuration whose two entries both
\* match the resolved path, has its marker
C3_Witness ==
  /\ Built
  /\ Len(configs) = 2
  /\ \E sp \in EligibleLinks(LinkSpans(doc)) :
       /\ sp.to > sp.target + 2
       /\ \A m \in 1..2 : PatternMatches(configs[m], toLowerCase(ResolvedPath(doc, sp)))
       /\ MarkersOf(decorations, sp) /= {}

Overlap(d, e) ==
  \/ (d.from < e.to /\ e.from < d.to)
  \/ (e.from = e.to /\ d.from < e.from /\ e.from < d.to)
  \/ (d.from = d.to /\ e.from < d.from /\ d.from < e.to)

\* C5: the instructions, in the order they are handed over, ascend by position
\* and no two of them overlap.
C5_OrderedNonOverlapping ==
  Built =>
    \A i \in 1..Len(decorations) : \A j \in (i + 1)..Len(decorations) :
      /\ decorations[i].from <= decorations[j].from
      /\ ~Overlap(decorations[i], decorations[j])

----------------------------------------------------------------------------
(* Claim about update, under Spec *)

\* C8: the held decorations are buildDecorations of the view of the last
\* update that reported a document, viewport or selection change, or of the
\* view at construction when there was none.
C8_HeldIsLastRebuild == decorations = buildDecorations(built)

\* after text was typed and the cursor moved, an update that reports nothing
\* has arrived and the plugin holds decorations
C8_Witness ==
  /\ event = NoEvent
  /\ selection.from > 0
  /\ decorations /= <<>>

----------------------------------------------------------------------------
(* Specification of the classifier alone *)

\* /^temp\//i, /^Temp\// and /\/temp\//i
TempLeadingI == RegExp(<<[anchored |-> TRUE, lit |-> <<"t","e","m","p","/">>]>>, TRUE)
TempLeading  == RegExp(<<[anchored |-> TRUE, lit |-> <<"T","e","m","p","/">>]>>, FALSE)
TempInsideI  == RegExp(<<[anchored |-> FALSE, lit |-> <<"/","t","e","m","p","/">>]>>, TRUE)

\* the entries configurations are made of: string and RegExp patterns, with a
\* class of their own or without, carrying enabled: false or not
RulePool ==
  {FolderConfig(Literal(<<"T","e","m","p">>), "A", Undefined, e) : e \in BOOLEAN}
  \cup {FolderConfig(TempLeadingI, "B", "b-class", e) : e \in BOOLEAN}
  \cup {FolderConfig(TempLeading, "C", "c-class", e) : e \in BOOLEAN}
  \cup {FolderConfig(TempInsideI, "D", Undefined, e) : e \in BOOLEAN}

Paths ==
  {<<"T","e","m","p","/","x">>, <<"t","e","m","p","/","x">>,
   <<"a","/","T","E","M","P","/","x">>, <<"x">>}

InitClassify ==
  /\ configs \in UNION {[1..n -> RulePool] : n \in 0..MaxRules}
  /\ filePath \in Paths
  /\ folderConfig = Null
  /\ pc = "new"
  /\ event = NoEvent
  /\ IdleEditor /\ IdleReading

\* a call of getFolderConfigForPath(filePath)
Classify ==
  /\ pc = "new"
  /\ folderConfig' = getFolderConfigForPath(filePath)
  /\ pc' = "classified"
  /\ UNCHANGED <<doc, selection, decorations, built, event, configs, filePath,
                 links, runs, children>>

NextClassify == Classify

SpecClassify == InitClassify /\ [][NextClassify]_vars

----------------------------------------------------------------------------
(* Claims about getFolderConfigForPath, under SpecClassify *)

Returned == pc = "classified"

Min(S) == CHOOSE n \in S : \A m \in S : n <= m

\* the entries without entry n
Without(entries, n) ==
  [k \in 1..(Len(entries) - 1) |-> IF k < n THEN entries[k] ELSE entries[k + 1]]

\* the first entry of `entries` among the indices M, or none
FirstOf(entries, M) == IF M = {} THEN Null ELSE entries[Min(M)]

RuleMatches(config, path, subject) ==
  IF config.folderPattern.type = "string"
  THEN includes(toLowerCase(path), toLowerCase(config.folderPattern.text))
  ELSE test(config.folderPattern, subject)

\* C7 as claimed: a RegExp entry is tested against the path as given.
C7_RegExpOnOriginalPath ==
  Returned =>
    folderConfig =
      FirstOf(configs, {n \in 1..Len(configs) : RuleMatches(configs[n], filePath, filePath)})

\* C7 as it holds: a RegExp entry is tested, with its own flags, against the
\* lowercased path, and a string entry by containment of the lowercased
\* pattern in the lowercased path; so an entry whose RegExp carries the i flag
\* matches a path whatever the case of its letters.
C7_RegExpOnLowercasedPath ==
  Returned =>
    /\ folderConfig =
         FirstOf(configs, {n \in 1..Len(configs) :
                             RuleMatches(configs[n], filePath, toLowerCase(filePath))})
    /\ \A n \in 1..Len(configs) :
         (configs[n].folderPattern.type = "RegExp" /\ configs[n].folderPattern.ignoreCase)
           => (PatternMatches(configs[n], toLowerCase(filePath))
                 <=> test(configs[n].folderPattern, filePath))

\* /^temp\//i is the entry returned for the path Temp/x
C7_Witness ==
  /\ Returned
  /\ filePath = <<"T","e","m","p","/","x">>
  /\ folderConfig /= Null
  /\ folderConfig.folderPattern = TempLeadingI

----------------------------------------------------------------------------
(* Specification of the reading mode link post processor *)

\* <span class=className>text</span>; a text node has no class
Span(text, className) == [kind |-> "span", text |-> text, className |-> className]
TextNode(text) == [kind |-> "text", text |-> text, className |-> ""]

\* <a class="internal-link" data-href=href>: the spans inside it and its own
\* classes besides internal-link
Anchor(href) == [href |-> href, spans |-> <<>>, classList |-> {}]

\* only the default class is looked for
ExistingEmoji_DefaultOnly(link, cssClass) ==
  \E n \in 1..Len(link.spans) : link.spans[n].className = "folder-link-emoji"

\* link.querySelector('.folder-link-emoji, .' + cssClass)
ExistingEmoji(link, cssClass) ==
  \E n \in 1..Len(link.spans) :
    link.spans[n].className \in {"folder-link-emoji", cssClass}

\* the callback of links.forEach: the link after it
ProcessLink(link) ==
  LET file == getFirstLinkpathDest(link.href)
      config == getFolderConfigForPath(file.path)
  IN  IF link.href = NullString \/ link.href = <<>> THEN link
      ELSE IF file = Null THEN link
      ELSE IF config = Null THEN link
      ELSE IF ExistingEmoji(link, config.cssClass) THEN link
      ELSE [link EXCEPT
              !.spans = Append(@, Span(<<" ", config.emoji>>,
                                       IF config.cssClass /= Undefined /\ config.cssClass /= ""
                                       THEN config.cssClass ELSE "folder-link-emoji")),
              !.classList = @ \cup {"has-folder-emoji"}]

processFolderLinksInReadingMode(element) ==
  [n \in 1..Len(element) |-> ProcessLink(element[n])]

\* data-href of the links of a fragment: two files of the vault, no file, and
\* no attribute
Hrefs == {<<"i">>, <<"i","x">>, <<"z">>, NullString}

ReadingConfigurations == {FOLDER_CONFIGURATIONS, TwoFolderConfigurations, <<>>}

InitLinks ==
  /\ links \in UNION {[1..n -> {Anchor(h) : h \in Hrefs}] : n \in 0..MaxLinks}
  /\ configs \in ReadingConfigurations
  /\ runs = 0
  /\ children = <<>>
  /\ pc = "rendered"
  /\ event = NoEvent
  /\ IdleEditor /\ IdleClassifier

\* the post processor registered in onload runs on the fragment
ProcessLinks ==
  /\ runs < MaxRuns
  /\ links' = processFolderLinksInReadingMode(links)
  /\ runs' = runs + 1
  /\ UNCHANGED <<doc, selection, decorations, built, pc, event, configs, filePath,
                 folderConfig, children>>

NextLinks == ProcessLinks

SpecLinks == InitLinks /\ [][NextLinks]_vars

\* C9: once the post processor has run, however often, a link whose target
\* resolves to a path an entry matches holds exactly one marker, with the
\* emoji of the earliest matching entry and the entry's class or the default
\* one, and every other link holds none.
C9_OneMarkerPerLink ==
  runs >= 1 =>
    \A n \in 1..Len(links) :
      LET file == getFirstLinkpathDest(links[n].href)
          marked == file /= Null /\ EarliestMatch(file.path) /= {}
      IN  IF marked
          THEN /\ Len(links[n].spans) = 1
               /\ \E m \in EarliestMatch(file.path) :
                    links[n].spans[1] =
                      Span(<<" ", configs[m].emoji>>,
                           IF configs[m].cssClass = Undefined
                           THEN "folder-link-emoji" ELSE configs[m].cssClass)
          ELSE links[n].spans = <<>>

\* after two runs a link holds one marker of the default class and another
\* link holds none
C9_Witness ==
  /\ runs >= 2
  /\ \E n \in 1..Len(links) :
       Len(links[n].spans) = 1 /\ links[n].spans[1].className = "folder-link-emoji"
  /\ \E n \in 1..Len(links) : links[n].spans = <<>>

----------------------------------------------------------------------------
(* Specification of the reading mode shortcode post processor *)

\* the loop that fills emojiReplacements, with lastIndex = k
RECURSIVE FindReplacements(_, _)
FindReplacements(text, k) ==
  LET index == EmojiExec(text, k)
      end == EmojiMatchEnd(text, index)
      emoji == EmojiOf(substring(text, index, end))
  IN  IF index < 0 THEN <<>>
      ELSE (IF emoji /= Undefined
            THEN <<[start |-> index, end |-> end, emoji |-> emoji]>> ELSE <<>>)
           \o FindReplacements(text, end)

Reverse(q) == [n \in 1..Len(q) |-> q[Len(q) + 1 - n]]

\* replacements.reverse().forEach(...): the nodes it inserts before textNode,
\* each insertBefore(node, textNode) putting its node right before textNode
RECURSIVE InsertedNodes(_, _)
InsertedNodes(currentText, replacements) ==
  IF replacements = <<>> THEN <<>>
  ELSE LET replacement == Head(replacements)
           before == substring(currentText, 0, replacement.start)
           after == substring(currentText, replacement.end, Len(currentText))
       IN  (IF after /= <<>> THEN <<TextNode(after)>> ELSE <<>>)
           \o <<Span(<<replacement.emoji>>, "emoji-replacement")>>
           \o (IF before /= <<>> THEN <<TextNode(before)>> ELSE <<>>)
           \o InsertedNodes(before, Tail(replacements))

\* applyEmojiReplacements(textNode, replacements, originalText) on the k-th
\* child of the parent: the parent's children after it
applyEmojiReplacements(nodes, k, replacements, originalText) ==
  SubSeq(nodes, 1, k - 1)
    \o InsertedNodes(originalText, Reverse(replacements))
    \o SubSeq(nodes, k + 1, Len(nodes))

\* the callback of textNodes.forEach for the k-th child of the parent
ProcessTextNode(nodes, k) ==
  LET text == nodes[k].text
      emojiReplacements == FindReplacements(text, 0)
  IN  IF Len(emojiReplacements) > 0
      THEN applyEmojiReplacements(nodes, k, emojiReplacements, text)
      ELSE nodes

InitEmojis ==
  /\ doc \in Documents
  /\ children = <<TextNode(doc)>>
  /\ pc = "rendered"
  /\ event = NoEvent
  /\ selection = [from |-> 0, to |-> 0]
  /\ decorations = <<>> /\ built = NoView
  /\ configs = FOLDER_CONFIGURATIONS
  /\ links = <<>> /\ runs = 0
  /\ IdleClassifier

\* processEmojisInReadingMode(element) on an element whose one text node holds doc
ProcessEmojis ==
  /\ pc = "rendered"
  /\ children' = ProcessTextNode(children, 1)
  /\ pc' = "processed"
  /\ UNCHANGED <<doc, selection, decorations, built, event, configs, filePath,
                 folderConfig, links, runs>>

NextEmojis == ProcessEmojis

SpecEmojis == InitEmojis /\ [][NextEmojis]_vars

\* what the nodes read, in document order: the characters of the text nodes
\* and the symbol of each element
Reading(nodes) == Concat([n \in 1..Len(nodes) |-> nodes[n].text])

\* the text from offset k on with every known token replaced by its symbol
RECURSIVE ExpectedReading(_, _, _)
ExpectedReading(text, known, k) ==
  IF k >= Len(text) THEN <<>>
  ELSE IF \E sp \in known : sp.from = k
  THEN LET sp == CHOOSE t \in known : t.from = k
       IN  <<EMOJI_MAPPINGS[substring(text, sp.from, sp.to)]>>
             \o ExpectedReading(text, known, sp.to)
  ELSE <<text[k + 1]>> \o ExpectedReading(text, known, k + 1)

\* C10: the nodes that replace the text node read as the original text with
\* each known token replaced by one symbol element and every other character
\* kept once, in its place.
C10_TextPreserved ==
  pc = "processed" =>
    LET known == {sp \in TokenSpans(doc) : KnownToken(doc, sp)}
    IN  /\ Reading(children) = ExpectedReading(doc, known, 0)
        /\ Cardinality({n \in 1..Len(children) : children[n].kind = "span"})
             = Cardinality(known)

====
